---- MODULE Spec2Model ----
(***************************************************************************)
(* Push-rule resource client of go-gitlab (push_rules.go).                 *)
(*                                                                         *)
(* Go strings are sequences of byte codes (47 is '/', 32 is ' ', ...), a   *)
(* Go pointer is a sequence of length at most one (<<>> is nil, <<v>> is a  *)
(* pointer to v), and a Go error is a string, "nil" when there is none.    *)
(***************************************************************************)
EXTENDS Integers, Sequences, FiniteSets, TLC

VARIABLES
    last,       \* the call that returned last: inputs, collaborator calls, results
    prev,       \* summary of the call before it
    nCalls,     \* calls made so far
    nReached,   \* calls whose reference resolved and whose request was built
    doCount,    \* calls of the shared client's Do so far
    rules,      \* server side: path segments of the projects that have a push rule
    ref,        \* SpecPath: the resolved project reference being escaped
    seg,        \* SpecPath: <<>> before the escape, <<escaped>> after it
    jsIn,       \* SpecJSON: the value being encoded or the body being decoded
    jsOut       \* SpecJSON: the result

vars == <<last, prev, nCalls, nReached, doCount, rules, ref, seg, jsIn, jsOut>>

Nil == "nil"

(***************************** bounds ***************************************)
MaxCalls == 2
MaxRefLen == 3
MaxKeys == 2

(***************************** strings **************************************)
\* "projects/"
ProjectsPrefix == <<112, 114, 111, 106, 101, 99, 116, 115, 47>>
\* "/push_rule"
PushRuleSuffix == <<47, 112, 117, 115, 104, 95, 114, 117, 108, 101>>

RECURSIVE Flatten(_)
Flatten(ss) == IF ss = <<>> THEN <<>> ELSE Head(ss) \o Flatten(Tail(ss))

IsAlnum(c) ==
    \/ 97 <= c /\ c <= 122
    \/ 65 <= c /\ c <= 90
    \/ 48 <= c /\ c <= 57

\* net/url shouldEscape(c, encodeQueryComponent): alphanumerics and
\* '-' '_' '.' '~' are kept, every other byte is escaped.
shouldEscape(c) == ~(IsAlnum(c) \/ c \in {45, 95, 46, 126})

\* "0123456789ABCDEF"[n]
upperhex(n) == IF n < 10 THEN 48 + n ELSE 65 + (n - 10)

\* net/url escape, one byte: ' ' becomes '+', an escaped byte becomes
\* '%' and two upper-case hex digits, any other byte is copied.
escapeByte(c) ==
    IF ~shouldEscape(c) THEN <<c>>
    ELSE IF c = 32 THEN <<43>>
    ELSE <<37, upperhex(c \div 16), upperhex(c % 16)>>

QueryEscape(s) == Flatten([i \in 1..Len(s) |-> escapeByte(s[i])])

IsHex(c) ==
    \/ 48 <= c /\ c <= 57
    \/ 65 <= c /\ c <= 70
    \/ 97 <= c /\ c <= 102

unhex(c) ==
    IF 48 <= c /\ c <= 57 THEN c - 48
    ELSE IF 97 <= c /\ c <= 102 THEN c - 97 + 10
    ELSE c - 65 + 10

\* net/url QueryUnescape; <<-1>> stands for its EscapeError.
RECURSIVE QueryUnescape(_)
QueryUnescape(s) ==
    IF s = <<>> THEN <<>>
    ELSE IF Head(s) = 37 THEN
        IF Len(s) >= 3 /\ IsHex(s[2]) /\ IsHex(s[3])
        THEN LET rest == QueryUnescape(SubSeq(s, 4, Len(s)))
             IN  IF rest = <<-1>> THEN rest
                 ELSE <<16 * unhex(s[2]) + unhex(s[3])>> \o rest
        ELSE <<-1>>
    ELSE LET rest == QueryUnescape(Tail(s))
         IN  IF rest = <<-1>> THEN rest
             ELSE <<IF Head(s) = 43 THEN 32 ELSE Head(s)>> \o rest

\* strconv.Itoa
RECURSIVE ItoaNat(_)
ItoaNat(n) == IF n < 10 THEN <<48 + n>> ELSE ItoaNat(n \div 10) \o <<48 + (n % 10)>>

Itoa(n) == IF n < 0 THEN <<45>> \o ItoaNat(0 - n) ELSE ItoaNat(n)

(************************* project references *******************************)
IntPid(n) == [kind |-> "int", int |-> n, str |-> <<>>]
StrPid(s) == [kind |-> "string", int |-> 0, str |-> s]
\* a value of any other dynamic type (a float, a struct, nil)
OtherPid == [kind |-> "other", int |-> 0, str |-> <<>>]

ErrInvalidID == "invalid ID"

\* The identifier helper: an int is formatted in decimal, a non-empty string
\* is taken as it is, anything else is an error.
parseID(pid) ==
    IF pid.kind = "int" THEN [id |-> Itoa(pid.int), err |-> Nil]
    ELSE IF pid.kind = "string" /\ pid.str # <<>> THEN [id |-> pid.str, err |-> Nil]
    ELSE [id |-> <<>>, err |-> ErrInvalidID]

\* fmt.Sprintf("projects/%s/push_rule", project) of an unescaped project
PushRulePathRaw(project) == ProjectsPrefix \o project \o PushRuleSuffix

\* u := fmt.Sprintf("projects/%s/push_rule", url.QueryEscape(project))
PushRulePath(project) == ProjectsPrefix \o QueryEscape(project) \o PushRuleSuffix

(******************************* JSON ***************************************)
\* A JSON value is <<"null">>, <<"bool", b>>, <<"num", n>> or <<"str", s>>; a
\* JSON object is a function from its keys to JSON values.
JNull == <<"null">>
JBool(b) == <<"bool", b>>
JNum(n) == <<"num", n>>
JStr(s) == <<"str", s>>

EmptyObject == [k \in {} |-> JNull]

\* time.Time values and their RFC 3339 texts (the zero time and one other)
TimeTexts == {"0001-01-01T00:00:00Z", "2017-06-01T00:00:00Z"}
ParseTime(s) == IF s = "0001-01-01T00:00:00Z" THEN [year |-> 1, zero |-> TRUE]
                ELSE [year |-> 2017, zero |-> FALSE]
FormatTime(t) == IF t.year = 1 THEN "0001-01-01T00:00:00Z"
                 ELSE "2017-06-01T00:00:00Z"

\* type PushRules struct: Go field, wire name, Go type (all tagged omitempty)
PushRulesFields == <<
    [go |-> "ID",                 key |-> "id",                   type |-> "int"],
    [go |-> "PID",                key |-> "project_id",           type |-> "int"],
    [go |-> "CommitMessageRegex", key |-> "commit_message_regex", type |-> "*string"],
    [go |-> "BranchNameRegex",    key |-> "branch_name_regex",    type |-> "*string"],
    [go |-> "DenyDeleteTag",      key |-> "deny_delete_tag",      type |-> "*bool"],
    [go |-> "CreatedAt",          key |-> "created_at",           type |-> "*time"],
    [go |-> "MemberCheck",        key |-> "member_check",         type |-> "*bool"],
    [go |-> "PreventSecrets",     key |-> "prevent_secrets",      type |-> "*bool"],
    [go |-> "AuthorEmailRegex",   key |-> "author_email_regex",   type |-> "*string"],
    [go |-> "FileNameRegex",      key |-> "file_name_regex",      type |-> "*string"],
    [go |-> "MaxFileSizeMB",      key |-> "max_file_size",        type |-> "*int"] >>

\* type AddPushRulesOptions struct (EditPushRulesOptions is the same type)
AddPushRulesOptionsFields == <<
    [go |-> "CommitMessageRegex", key |-> "commit_message_regex", type |-> "*string"],
    [go |-> "BranchNameRegex",    key |-> "branch_name_regex",    type |-> "*string"],
    [go |-> "DenyDeleteTag",      key |-> "deny_delete_tag",      type |-> "*bool"],
    [go |-> "MemberCheck",        key |-> "member_check",         type |-> "*bool"],
    [go |-> "PreventSecrets",     key |-> "prevent_secrets",      type |-> "*bool"],
    [go |-> "AuthorEmailRegex",   key |-> "author_email_regex",   type |-> "*string"],
    [go |-> "FileNameRegex",      key |-> "file_name_regex",      type |-> "*string"],
    [go |-> "MaxFileSizeMB",      key |-> "max_file_size",        type |-> "*int"] >>

EditPushRulesOptionsFields == AddPushRulesOptionsFields

Range(f) == {f[i] : i \in DOMAIN f}
GoNames(fields) == {f.go : f \in Range(fields)}
WireNames(fields) == {f.key : f \in Range(fields)}
FieldNamed(fields, n) == CHOOSE f \in Range(fields) : f.go = n
FieldKeyed(fields, k) == CHOOSE f \in Range(fields) : f.key = k

IsPointer(type) == type # "int"

\* the zero value of a Go type: 0 for int, nil for a pointer
ZeroValue(type) == IF type = "int" THEN 0 ELSE <<>>

Choices == {"nil", "falsy", "truthy"}

\* a field value a caller can set: nil, a pointer to the zero value, a
\* pointer to another value
FieldValue(type, choice) ==
    IF choice = "nil" THEN ZeroValue(type)
    ELSE IF type = "int" THEN (IF choice = "falsy" THEN 0 ELSE 7)
    ELSE IF type = "*int" THEN (IF choice = "falsy" THEN <<0>> ELSE <<7>>)
    ELSE IF type = "*bool" THEN <<choice = "truthy">>
    ELSE IF type = "*string" THEN (IF choice = "falsy" THEN <<"">> ELSE <<"^x$">>)
    ELSE <<ParseTime(IF choice = "falsy" THEN "0001-01-01T00:00:00Z"
                     ELSE "2017-06-01T00:00:00Z")>>

\* encoding/json isEmptyValue, for the kinds of field these structs have: an
\* int is empty when 0, a pointer is empty when nil (whatever it points at).
isEmptyValue(type, v) == IF type = "int" THEN v = 0 ELSE v = <<>>

\* the JSON text of a non-nil field value
MarshalValue(type, v) ==
    IF type = "int" THEN JNum(v)
    ELSE IF type = "*int" THEN JNum(v[1])
    ELSE IF type = "*bool" THEN JBool(v[1])
    ELSE IF type = "*string" THEN JStr(v[1])
    ELSE JStr(FormatTime(v[1]))

\* json.Marshal of a struct whose fields are all omitempty
MarshalStruct(fields, val) ==
    LET kept == {f \in Range(fields) : ~isEmptyValue(f.type, val[f.go])}
    IN  [k \in {f.key : f \in kept} |->
            LET f == FieldKeyed(fields, k) IN MarshalValue(f.type, val[f.go])]

\* whether JSON value j can be stored in a field of this type
Assignable(type, j) ==
    \/ j = JNull
    \/ type \in {"int", "*int"} /\ j[1] = "num"
    \/ type = "*bool" /\ j[1] = "bool"
    \/ type = "*string" /\ j[1] = "str"
    \/ type = "*time" /\ j[1] = "str" /\ j[2] \in TimeTexts

\* json.Unmarshal of one value into a zeroed field: null leaves an int alone
\* and makes a pointer nil; any other value is stored (behind a fresh pointer).
UnmarshalValue(type, j) ==
    IF j = JNull THEN ZeroValue(type)
    ELSE IF type = "int" THEN j[2]
    ELSE IF type = "*time" THEN <<ParseTime(j[2])>>
    ELSE <<j[2]>>

ErrDecode == "json: cannot unmarshal"

\* json.Unmarshal of an object into a new (zeroed) struct: keys that name no
\* field are skipped, fields without a key keep their zero value.
UnmarshalStruct(fields, obj) ==
    LET known == DOMAIN obj \cap WireNames(fields)
    IN  IF \E k \in known : ~Assignable(FieldKeyed(fields, k).type, obj[k])
        THEN [err |-> ErrDecode, val |-> <<>>]
        ELSE [err |-> Nil,
              val |-> <<[n \in GoNames(fields) |->
                          LET f == FieldNamed(fields, n)
                          IN  IF f.key \in DOMAIN obj
                              THEN UnmarshalValue(f.type, obj[f.key])
                              ELSE ZeroValue(f.type)]>>]

\* as MarshalOptions, had the option fields been declared as plain values
\* (bool, int, string) with omitempty: a false, 0 or "" is dropped as well
MarshalOptionsOmitFalsy(opt) ==
    LET kept == {f \in Range(AddPushRulesOptionsFields) :
                    /\ opt[f.go] # <<>>
                    /\ opt[f.go] # FieldValue(f.type, "falsy")}
    IN  [k \in {f.key : f \in kept} |->
            LET f == FieldKeyed(AddPushRulesOptionsFields, k)
            IN  MarshalValue(f.type, opt[f.go])]

\* the request body of AddPushRule and EditPushRule: json.Marshal(opt)
MarshalOptions(opt) == MarshalStruct(AddPushRulesOptionsFields, opt)

\* as DecodePushRules, had the fields of PushRules been plain values: a field
\* without a key holds the zero value of its type instead of nil
DecodePushRulesZeroed(obj) ==
    LET d == UnmarshalStruct(PushRulesFields, obj)
    IN  IF d.err # Nil THEN d
        ELSE [err |-> Nil,
              val |-> <<[n \in GoNames(PushRulesFields) |->
                          LET f == FieldNamed(PushRulesFields, n)
                          IN  IF d.val[1][n] = ZeroValue(f.type)
                              THEN FieldValue(f.type, "falsy")
                              ELSE d.val[1][n]]>>]

\* p := new(PushRules), filled from a response body
DecodePushRules(obj) == UnmarshalStruct(PushRulesFields, obj)

\* json.Marshal of a PushRules
EncodePushRules(p) == MarshalStruct(PushRulesFields, p)

EmptyOptions == [n \in GoNames(AddPushRulesOptionsFields) |-> <<>>]

(*************************** collaborators **********************************)
ErrNewRequest == "NewRequest failed"
ErrTransport == "transport error"
ErrResponse == "error response"

\* The body argument of NewRequest, an interface{}: the untyped nil of
\* GetPushRule and DeletePushRule, or the caller's options pointer.
NoBody == [type |-> "nil", ptr |-> <<>>]
OptionsBody(type, opt) == [type |-> type, ptr |-> opt]

\* The shared client's NewRequest: the request it builds carries the method,
\* the path, the body and the caller's request options; nr is the error it
\* returns ("nil" for none).
NewRequest(method, u, opt, options, nr) ==
    [args |-> [method |-> method, path |-> u, body |-> opt, options |-> options],
     req  |-> IF nr = Nil
              THEN <<[method |-> method, path |-> u, body |-> opt, options |-> options]>>
              ELSE <<>>,
     err  |-> nr]

\* What the network does with one request: the connection fails, or the
\* server answers with a status and a body (a JSON object, or not JSON).
Transport == [kind |-> "transport", status |-> 0, wellFormed |-> FALSE, body |-> EmptyObject]
Answer(status, wellFormed, body) ==
    [kind |-> "http", status |-> status, wellFormed |-> wellFormed, body |-> body]

IsSuccess(net) == net.kind = "http" /\ net.status >= 200 /\ net.status <= 299

\* The shared client's Do(req, v): a transport failure returns no response;
\* a status outside 2xx returns the response with an error; otherwise the
\* body is decoded into v when v is not nil.
Do(req, v, net) ==
    IF net.kind = "transport" THEN [resp |-> <<>>, err |-> ErrTransport, val |-> <<>>]
    ELSE IF ~IsSuccess(net)
         THEN [resp |-> <<[status |-> net.status]>>, err |-> ErrResponse, val |-> <<>>]
    ELSE IF ~v THEN [resp |-> <<[status |-> net.status]>>, err |-> Nil, val |-> <<>>]
    ELSE IF ~net.wellFormed
         THEN [resp |-> <<[status |-> net.status]>>, err |-> ErrDecode, val |-> <<>>]
    ELSE LET d == DecodePushRules(net.body)
         IN  [resp |-> <<[status |-> net.status]>>, err |-> d.err, val |-> d.val]

(****************************** handlers ************************************)
\* What one call did and returned: its calls of NewRequest and of Do (the
\* arguments and what came back), and the returned resource, response and
\* error.
Outcome(newReq, do, rule, resp, err) ==
    [newReq |-> newReq, do |-> do, rule |-> rule, resp |-> resp, err |-> err]

DoCall(req, v, ret) == [req |-> req, v |-> v, ret |-> ret]

\* as GetPushRule, without the check of parseID's error
GetPushRuleUnchecked(pid, options, nr, net) ==
    LET id == parseID(pid)
        u == PushRulePath(id.id)
        r == NewRequest("GET", u, NoBody, options, nr)
    IN
    IF r.err # Nil THEN Outcome(<<r>>, <<>>, <<>>, <<>>, r.err)
    ELSE
    LET d == Do(r.req[1], TRUE, net) IN
    IF d.err # Nil THEN Outcome(<<r>>, <<DoCall(r.req[1], TRUE, d)>>, <<>>, d.resp, d.err)
    ELSE Outcome(<<r>>, <<DoCall(r.req[1], TRUE, d)>>, d.val, d.resp, d.err)

\* as GetPushRule, sending the request a second time when Do fails
GetPushRuleRetry(pid, options, nr, net) ==
    LET id == parseID(pid) IN
    IF id.err # Nil THEN Outcome(<<>>, <<>>, <<>>, <<>>, id.err)
    ELSE
    LET u == PushRulePath(id.id)
        r == NewRequest("GET", u, NoBody, options, nr)
    IN
    IF r.err # Nil THEN Outcome(<<r>>, <<>>, <<>>, <<>>, r.err)
    ELSE
    LET d == Do(r.req[1], TRUE, net) IN
    IF d.err # Nil
    THEN Outcome(<<r>>, <<DoCall(r.req[1], TRUE, d), DoCall(r.req[1], TRUE, d)>>,
                 <<>>, d.resp, d.err)
    ELSE Outcome(<<r>>, <<DoCall(r.req[1], TRUE, d)>>, d.val, d.resp, d.err)

\* func (s *ProjectsService) GetPushRule(pid, options...)
GetPushRule(pid, options, nr, net) ==
    LET id == parseID(pid) IN
    IF id.err # Nil THEN Outcome(<<>>, <<>>, <<>>, <<>>, id.err)
    ELSE
    LET u == PushRulePath(id.id)
        r == NewRequest("GET", u, NoBody, options, nr)
    IN
    IF r.err # Nil THEN Outcome(<<r>>, <<>>, <<>>, <<>>, r.err)
    ELSE
    LET d == Do(r.req[1], TRUE, net) IN
    IF d.err # Nil THEN Outcome(<<r>>, <<DoCall(r.req[1], TRUE, d)>>, <<>>, d.resp, d.err)
    ELSE Outcome(<<r>>, <<DoCall(r.req[1], TRUE, d)>>, d.val, d.resp, d.err)

\* as AddPushRule, returning p without looking at Do's error
AddPushRuleNoErrCheck(pid, opt, options, nr, net) ==
    LET id == parseID(pid) IN
    IF id.err # Nil THEN Outcome(<<>>, <<>>, <<>>, <<>>, id.err)
    ELSE
    LET u == PushRulePath(id.id)
        r == NewRequest("POST", u, OptionsBody("*AddPushRulesOptions", opt), options, nr)
    IN
    IF r.err # Nil THEN Outcome(<<r>>, <<>>, <<>>, <<>>, r.err)
    ELSE
    LET d == Do(r.req[1], TRUE, net)
        p == IF d.val # <<>> THEN d.val
             ELSE <<[n \in GoNames(PushRulesFields) |->
                        ZeroValue(FieldNamed(PushRulesFields, n).type)]>>
    IN  Outcome(<<r>>, <<DoCall(r.req[1], TRUE, d)>>, p, d.resp, d.err)

\* func (s *ProjectsService) AddPushRule(pid, opt, options...)
AddPushRule(pid, opt, options, nr, net) ==
    LET id == parseID(pid) IN
    IF id.err # Nil THEN Outcome(<<>>, <<>>, <<>>, <<>>, id.err)
    ELSE
    LET u == PushRulePath(id.id)
        r == NewRequest("POST", u, OptionsBody("*AddPushRulesOptions", opt), options, nr)
    IN
    IF r.err # Nil THEN Outcome(<<r>>, <<>>, <<>>, <<>>, r.err)
    ELSE
    LET d == Do(r.req[1], TRUE, net) IN
    IF d.err # Nil THEN Outcome(<<r>>, <<DoCall(r.req[1], TRUE, d)>>, <<>>, d.resp, d.err)
    ELSE Outcome(<<r>>, <<DoCall(r.req[1], TRUE, d)>>, d.val, d.resp, d.err)

\* as EditPushRule, with AddPushRule's method left in place
EditPushRuleAsPost(pid, opt, options, nr, net) ==
    LET id == parseID(pid) IN
    IF id.err # Nil THEN Outcome(<<>>, <<>>, <<>>, <<>>, id.err)
    ELSE
    LET u == PushRulePath(id.id)
        r == NewRequest("POST", u, OptionsBody("*EditPushRulesOptions", opt), options, nr)
    IN
    IF r.err # Nil THEN Outcome(<<r>>, <<>>, <<>>, <<>>, r.err)
    ELSE
    LET d == Do(r.req[1], TRUE, net) IN
    IF d.err # Nil THEN Outcome(<<r>>, <<DoCall(r.req[1], TRUE, d)>>, <<>>, d.resp, d.err)
    ELSE Outcome(<<r>>, <<DoCall(r.req[1], TRUE, d)>>, d.val, d.resp, d.err)

\* func (s *ProjectsService) EditPushRule(pid, opt, options...)
EditPushRule(pid, opt, options, nr, net) ==
    LET id == parseID(pid) IN
    IF id.err # Nil THEN Outcome(<<>>, <<>>, <<>>, <<>>, id.err)
    ELSE
    LET u == PushRulePath(id.id)
        r == NewRequest("PUT", u, OptionsBody("*EditPushRulesOptions", opt), options, nr)
    IN
    IF r.err # Nil THEN Outcome(<<r>>, <<>>, <<>>, <<>>, r.err)
    ELSE
    LET d == Do(r.req[1], TRUE, net) IN
    IF d.err # Nil THEN Outcome(<<r>>, <<DoCall(r.req[1], TRUE, d)>>, <<>>, d.resp, d.err)
    ELSE Outcome(<<r>>, <<DoCall(r.req[1], TRUE, d)>>, d.val, d.resp, d.err)

\* as DeletePushRule, decoding the response into a PushRules like the others
DeletePushRuleDecoding(pid, options, nr, net) ==
    LET id == parseID(pid) IN
    IF id.err # Nil THEN Outcome(<<>>, <<>>, <<>>, <<>>, id.err)
    ELSE
    LET u == PushRulePath(id.id)
        r == NewRequest("DELETE", u, NoBody, options, nr)
    IN
    IF r.err # Nil THEN Outcome(<<r>>, <<>>, <<>>, <<>>, r.err)
    ELSE
    LET d == Do(r.req[1], TRUE, net) IN
    Outcome(<<r>>, <<DoCall(r.req[1], TRUE, d)>>, <<>>, d.resp, d.err)

\* as DeletePushRule, reporting a 404 answer as success
DeletePushRuleIgnore404(pid, options, nr, net) ==
    LET id == parseID(pid) IN
    IF id.err # Nil THEN Outcome(<<>>, <<>>, <<>>, <<>>, id.err)
    ELSE
    LET u == PushRulePath(id.id)
        r == NewRequest("DELETE", u, NoBody, options, nr)
    IN
    IF r.err # Nil THEN Outcome(<<r>>, <<>>, <<>>, <<>>, r.err)
    ELSE
    LET d == Do(r.req[1], FALSE, net) IN
    IF d.resp # <<>> /\ d.resp[1].status = 404
    THEN Outcome(<<r>>, <<DoCall(r.req[1], FALSE, d)>>, <<>>, d.resp, Nil)
    ELSE Outcome(<<r>>, <<DoCall(r.req[1], FALSE, d)>>, <<>>, d.resp, d.err)

\* func (s *ProjectsService) DeletePushRule(pid, options...); it returns no
\* resource, and whatever Do returns
DeletePushRule(pid, options, nr, net) ==
    LET id == parseID(pid) IN
    IF id.err # Nil THEN Outcome(<<>>, <<>>, <<>>, <<>>, id.err)
    ELSE
    LET u == PushRulePath(id.id)
        r == NewRequest("DELETE", u, NoBody, options, nr)
    IN
    IF r.err # Nil THEN Outcome(<<r>>, <<>>, <<>>, <<>>, r.err)
    ELSE
    LET d == Do(r.req[1], FALSE, net) IN
    Outcome(<<r>>, <<DoCall(r.req[1], FALSE, d)>>, <<>>, d.resp, d.err)

(****************************** inputs **************************************)
\* 42, "g/p x", "" and a value that is neither an int nor a string
PIDs == {IntPid(42), StrPid(<<103, 47, 112, 32, 120>>), StrPid(<<>>), OtherPid}

\* opt: nil, {PreventSecrets: true}
Opts == {<<>>, <<[EmptyOptions EXCEPT !.PreventSecrets = <<TRUE>>]>>}

\* options ...OptionFunc
OptionFuncs == {<<>>, <<"WithSudo">>}

NewRequestErrs == {Nil, ErrNewRequest}

\* {"id":1,"project_id":42,"deny_delete_tag":true}
SampleBodies == {[k \in {"id", "project_id", "deny_delete_tag"} |->
                     IF k = "id" THEN JNum(1)
                     ELSE IF k = "project_id" THEN JNum(42) ELSE JBool(TRUE)]}

NetOutcomes == {Transport, Answer(404, TRUE, EmptyObject), Answer(200, FALSE, EmptyObject)}
               \cup {Answer(200, TRUE, b) : b \in SampleBodies}

(**************************** state machine *********************************)
NoOutcome == Outcome(<<>>, <<>>, <<>>, <<>>, Nil)

NoCall == [op |-> "none", pid |-> OtherPid, opt |-> <<>>, options |-> <<>>,
           out |-> NoOutcome, ruleBefore |-> FALSE]

\* The status the server answered a call's request with; 0 when no request
\* was sent or no answer came.
ServerStatus(out) ==
    IF out.do # <<>> /\ Head(out.do).ret.resp # <<>>
    THEN Head(out.do).ret.resp[1].status
    ELSE 0

Succeeded(status) == status >= 200 /\ status <= 299

Summary(call) ==
    [op |-> call.op, pid |-> call.pid, errNil |-> call.out.err = Nil,
     path |-> [i \in 1..Len(call.out.newReq) |-> call.out.newReq[i].args.path],
     status |-> ServerStatus(call.out),
     ruleBefore |-> call.ruleBefore]

\* The server: a successful POST leaves the project with a push rule, a
\* successful DELETE leaves it without one.
RECURSIVE ServerAfter(_, _, _)
ServerAfter(rs, do, net) ==
    IF do = <<>> THEN rs
    ELSE LET req == Head(do).req
             after == IF ~IsSuccess(net) THEN rs
                      ELSE IF req.method = "POST" THEN rs \cup {req.path}
                      ELSE IF req.method = "DELETE" THEN rs \ {req.path}
                      ELSE rs
         IN  ServerAfter(after, Tail(do), net)

Idle == ref = <<>> /\ seg = <<>> /\ jsIn = <<>> /\ jsOut = <<>>

Init ==
    /\ last = NoCall
    /\ prev = Summary(NoCall)
    /\ nCalls = 0
    /\ nReached = 0
    /\ doCount = 0
    /\ rules \in {{}, {PushRulePath(parseID(pid).id) : pid \in {q \in PIDs : parseID(q).err = Nil}}}
    /\ Idle

\* One call returns: the state records it and counts the collaborator calls.
Return(op, pid, opt, options, nr, net, out) ==
    /\ last' = [op |-> op, pid |-> pid, opt |-> opt, options |-> options, out |-> out,
                ruleBefore |-> parseID(pid).err = Nil
                               /\ PushRulePath(parseID(pid).id) \in rules]
    /\ prev' = Summary(last)
    /\ nCalls' = nCalls + 1
    /\ nReached' = nReached + (IF parseID(pid).err = Nil /\ nr = Nil THEN 1 ELSE 0)
    /\ doCount' = doCount + Len(out.do)
    /\ rules' = ServerAfter(rules, out.do, net)
    /\ UNCHANGED <<ref, seg, jsIn, jsOut>>

CallGetPushRule ==
    /\ nCalls < MaxCalls
    /\ \E pid \in PIDs, options \in OptionFuncs, nr \in NewRequestErrs, net \in NetOutcomes :
        \E out \in {GetPushRule(pid, options, nr, net)} :
            Return("GetPushRule", pid, <<>>, options, nr, net, out)

CallAddPushRule ==
    /\ nCalls < MaxCalls
    /\ \E pid \in PIDs, opt \in Opts, options \in OptionFuncs,
          nr \in NewRequestErrs, net \in NetOutcomes :
        \E out \in {AddPushRule(pid, opt, options, nr, net)} :
            Return("AddPushRule", pid, opt, options, nr, net, out)

CallEditPushRule ==
    /\ nCalls < MaxCalls
    /\ \E pid \in PIDs, opt \in Opts, options \in OptionFuncs,
          nr \in NewRequestErrs, net \in NetOutcomes :
        \E out \in {EditPushRule(pid, opt, options, nr, net)} :
            Return("EditPushRule", pid, opt, options, nr, net, out)

CallDeletePushRule ==
    /\ nCalls < MaxCalls
    /\ \E pid \in PIDs, options \in OptionFuncs, nr \in NewRequestErrs, net \in NetOutcomes :
        \E out \in {DeletePushRule(pid, options, nr, net)} :
            Return("DeletePushRule", pid, <<>>, options, nr, net, out)

Next ==
    \/ CallGetPushRule
    \/ CallAddPushRule
    \/ CallEditPushRule
    \/ CallDeletePushRule

Spec == Init /\ [][Next]_vars

(******************* the path of every bounded reference ********************)
\* 'a', '/', ' ', '.', '+', '%'
Alphabet == {97, 47, 32, 46, 43, 37}

Strings(n) == UNION {[1..k -> Alphabet] : k \in 0..n}

CallsIdle ==
    /\ last = NoCall
    /\ prev = Summary(NoCall)
    /\ nCalls = 0
    /\ nReached = 0
    /\ doCount = 0
    /\ rules = {}

InitPath ==
    /\ CallsIdle
    /\ ref \in Strings(MaxRefLen) \ {<<>>}
    /\ seg = <<>>
    /\ jsIn = <<>>
    /\ jsOut = <<>>

\* u := fmt.Sprintf(...) on a resolved reference
BuildPath ==
    /\ seg = <<>>
    /\ seg' = <<PushRulePath(ref)>>
    /\ UNCHANGED <<last, prev, nCalls, nReached, doCount, rules, ref, jsIn, jsOut>>

NextPath == BuildPath

SpecPath == InitPath /\ [][NextPath]_vars

(********************* encoding and decoding, bounded ***********************)
AllOptions ==
    {[n \in GoNames(AddPushRulesOptionsFields) |->
        FieldValue(FieldNamed(AddPushRulesOptionsFields, n).type, c[n])] :
     c \in [GoNames(AddPushRulesOptionsFields) -> Choices]}

JChoices == {"null", "falsy", "truthy", "mistyped"}

\* a JSON value a server can send for a field
JValue(type, choice) ==
    IF choice = "null" THEN JNull
    ELSE IF choice = "mistyped"
         THEN (IF type \in {"*string", "*time"} THEN JNum(1) ELSE JStr("x"))
    ELSE IF type \in {"int", "*int"} THEN JNum(IF choice = "falsy" THEN 0 ELSE 7)
    ELSE IF type = "*bool" THEN JBool(choice = "truthy")
    ELSE IF type = "*string" THEN JStr(IF choice = "falsy" THEN "" ELSE "^x$")
    ELSE JStr(IF choice = "falsy" THEN "0001-01-01T00:00:00Z" ELSE "2017-06-01T00:00:00Z")

\* "unknown" is a key that names no field of PushRules
BodyKeys == WireNames(PushRulesFields) \cup {"unknown"}

KeyType(k) == IF k = "unknown" THEN "*string" ELSE FieldKeyed(PushRulesFields, k).type

AllBodies ==
    UNION {{[k \in K |-> JValue(KeyType(k), c[k])] : c \in [K -> JChoices]} :
           K \in {K \in SUBSET BodyKeys : Cardinality(K) <= MaxKeys}}

InitJSON ==
    /\ CallsIdle
    /\ ref = <<>>
    /\ seg = <<>>
    /\ \/ \E o \in AllOptions : jsIn = [kind |-> "options", val |-> o]
       \/ \E b \in AllBodies : jsIn = [kind |-> "body", val |-> b]
    /\ jsOut = <<>>

\* NewRequest serialises the options of AddPushRule or EditPushRule
MarshalBody ==
    /\ jsOut = <<>>
    /\ jsIn.kind = "options"
    /\ jsOut' = <<MarshalOptions(jsIn.val)>>
    /\ UNCHANGED <<last, prev, nCalls, nReached, doCount, rules, ref, seg, jsIn>>

\* Do decodes a response body into a PushRules; the caller encodes it again
DecodeBody ==
    /\ jsOut = <<>>
    /\ jsIn.kind = "body"
    /\ LET d == DecodePushRules(jsIn.val)
       IN  jsOut' = <<[err |-> d.err, val |-> d.val,
                       enc |-> IF d.err = Nil THEN EncodePushRules(d.val[1])
                               ELSE EmptyObject]>>
    /\ UNCHANGED <<last, prev, nCalls, nReached, doCount, rules, ref, seg, jsIn>>

NextJSON == MarshalBody \/ DecodeBody

SpecJSON == InitJSON /\ [][NextJSON]_vars

(******************************* claims *************************************)
Called == last.op # "none"
LastId == parseID(last.pid)
Built == last.out.newReq # <<>> /\ last.out.newReq[1].err = Nil
LastPath == last.out.newReq[1].args.path

\* "g/p x"
SamplePid == StrPid(<<103, 47, 112, 32, 120>>)
\* "projects/g%2Fp+x/push_rule"
SamplePath == <<112, 114, 111, 106, 101, 99, 116, 115, 47,
                103, 37, 50, 70, 112, 43, 120,
                47, 112, 117, 115, 104, 95, 114, 117, 108, 101>>

\* C1: in each of the four operations, when parseID fails on the project
\* reference the operation returns that error, builds no request and calls Do
\* zero times.
C1_InvalidRefSendsNothing ==
    (Called /\ LastId.err # Nil) =>
        /\ last.out.err = LastId.err
        /\ last.out.newReq = <<>>
        /\ last.out.do = <<>>
        /\ last.out.resp = <<>>
        /\ last.out.rule = <<>>
        /\ (nCalls = 1 => doCount = 0)

C1_Witness ==
    /\ prev.op = "GetPushRule" /\ prev.pid = StrPid(<<>>) /\ ~prev.errNil
    /\ last.op = "DeletePushRule" /\ last.pid = OtherPid
    /\ last.out.err = ErrInvalidID
    /\ doCount = 0

\* C2: for every reference that resolves, the path handed to the shared
\* client is "projects/" + url.QueryEscape(ref) + "/push_rule": its middle
\* segment holds no raw '/' and unescapes to the reference, and two calls on
\* the same reference use the same path whatever the operation.
C2_PathOfReference ==
    (Called /\ LastId.err = Nil) =>
        /\ Len(last.out.newReq) = 1
        /\ LastPath = ProjectsPrefix \o QueryEscape(LastId.id) \o PushRuleSuffix
        /\ LET sg == SubSeq(LastPath, Len(ProjectsPrefix) + 1,
                            Len(LastPath) - Len(PushRuleSuffix))
           IN  /\ 47 \notin Range(sg)
               /\ QueryUnescape(sg) = LastId.id
        /\ \A i \in 1..Len(last.out.do) : last.out.do[i].req.path = LastPath
        /\ (prev.path # <<>> /\ parseID(prev.pid).id = LastId.id) => prev.path[1] = LastPath

C2_Witness ==
    /\ prev.op = "AddPushRule" /\ prev.pid = SamplePid /\ prev.path = <<SamplePath>>
    /\ last.op = "DeletePushRule" /\ last.pid = SamplePid
    /\ last.out.do # <<>>
    /\ last.out.do[1].req.path = SamplePath

\* strict percent-encoding of a path segment: an unreserved byte (a letter, a
\* digit, '-', '.', '_', '~') is kept, every other byte becomes %HH
PercentEncode(s) ==
    Flatten([i \in 1..Len(s) |->
        IF IsAlnum(s[i]) \/ s[i] \in {45, 46, 95, 126} THEN <<s[i]>>
        ELSE <<37, upperhex(s[i] \div 16), upperhex(s[i] % 16)>>])

\* C3: when the reference is a "namespace/name" string, every byte of it that
\* is not URL-unreserved appears in the path as a %HH escape and no byte is
\* encoded by any other substitution.
C3_SegmentPercentEncoded ==
    (seg # <<>> /\ 47 \in Range(ref)) =>
        seg[1] = ProjectsPrefix \o PercentEncode(ref) \o PushRuleSuffix

ExpectedMethod(op) ==
    IF op = "GetPushRule" THEN "GET"
    ELSE IF op = "AddPushRule" THEN "POST"
    ELSE IF op = "EditPushRule" THEN "PUT"
    ELSE "DELETE"

\* C4: GetPushRule sends GET with no body, AddPushRule POST with the caller's
\* options, EditPushRule PUT with the caller's options, DeletePushRule DELETE
\* with no body; the caller's request options are passed on unchanged, and
\* the request given to Do is the one that was built.
C4_VerbAndPayload ==
    (Called /\ last.out.newReq # <<>>) =>
        LET a == last.out.newReq[1].args IN
        /\ a.method = ExpectedMethod(last.op)
        /\ a.body.ptr = last.opt
        /\ (a.body.type = "nil") <=> (last.op \in {"GetPushRule", "DeletePushRule"})
        /\ a.options = last.options
        /\ \A i \in 1..Len(last.out.do) : last.out.do[i].req = a

C4_Witness ==
    /\ last.op = "EditPushRule"
    /\ last.opt # <<>>
    /\ last.options = <<"WithSudo">>
    /\ last.out.do # <<>>
    /\ last.out.do[1].req.method = "PUT"
    /\ last.out.do[1].req.body.ptr[1].PreventSecrets = <<TRUE>>

\* C5: a call whose reference resolves and whose request is built calls Do
\* exactly once, whether Do succeeds or fails, and any other call not at all;
\* after any sequence of calls the number of Do calls is the number of such
\* calls.
C5_OneDoPerCall ==
    /\ doCount = nReached
    /\ Called => Len(last.out.do) = (IF LastId.err = Nil /\ Built THEN 1 ELSE 0)

C5_Witness ==
    /\ nCalls = 2 /\ doCount = 2
    /\ prev.op = "GetPushRule" /\ last.op = "GetPushRule"
    /\ prev.pid = last.pid
    /\ prev.status = 0 /\ ~prev.errNil /\ prev.path # <<>>
    /\ last.out.err = ErrTransport

\* the wire name of each option field
OptionWireName ==
    [CommitMessageRegex |-> "commit_message_regex",
     BranchNameRegex    |-> "branch_name_regex",
     DenyDeleteTag      |-> "deny_delete_tag",
     MemberCheck        |-> "member_check",
     PreventSecrets     |-> "prevent_secrets",
     AuthorEmailRegex   |-> "author_email_regex",
     FileNameRegex      |-> "file_name_regex",
     MaxFileSizeMB      |-> "max_file_size"]

\* C6: the keys of the serialized options are exactly the wire names of the
\* fields that are set (non-nil); an unset field is not emitted, not even as
\* null, and a field set to false, 0 or "" is emitted with that value.
C6_SparsePayload ==
    (jsIn.kind = "options" /\ jsOut # <<>>) =>
        /\ DOMAIN jsIn.val = DOMAIN OptionWireName
        /\ DOMAIN jsOut[1] = {OptionWireName[n] : n \in {m \in DOMAIN jsIn.val : jsIn.val[m] # <<>>}}
        /\ \A k \in DOMAIN jsOut[1] : jsOut[1][k] # JNull
        /\ \A n \in DOMAIN jsIn.val :
              jsIn.val[n] # <<>> => jsOut[1][OptionWireName[n]][2] = jsIn.val[n][1]

C6_Witness ==
    /\ jsIn.kind = "options" /\ jsOut # <<>>
    /\ jsIn.val.DenyDeleteTag = <<FALSE>>
    /\ jsIn.val.MaxFileSizeMB = <<0>>
    /\ jsIn.val.CommitMessageRegex = <<"">>
    /\ jsIn.val.PreventSecrets = <<>>
    /\ DOMAIN jsOut[1] = {"deny_delete_tag", "max_file_size", "commit_message_regex"}
    /\ jsOut[1]["deny_delete_tag"] = JBool(FALSE)

Without(obj, k) == [j \in DOMAIN obj \ {k} |-> obj[j]]

DecodedOK == jsIn.kind = "body" /\ jsOut # <<>> /\ jsOut[1].err = Nil

\* decoding the body without key k gives another value than decoding the body
Distinguishable(k) == DecodePushRules(Without(jsIn.val, k)).val # jsOut[1].val

\* C7 as stated: for a body that holds some of the fields, each with a value,
\* every other field is marked absent (a nil pointer), every field of the body
\* is distinguishable from its absence, and encoding the decoded value gives
\* back the key set of the body.
C7_AbsentVersusFalsy ==
    (/\ DecodedOK
     /\ DOMAIN jsIn.val # {}
     /\ DOMAIN jsIn.val \subseteq WireNames(PushRulesFields)
     /\ \A k \in DOMAIN jsIn.val : jsIn.val[k] # JNull) =>
        /\ \A f \in Range(PushRulesFields) :
              f.key \notin DOMAIN jsIn.val => IsPointer(f.type) /\ jsOut[1].val[1][f.go] = <<>>
        /\ \A k \in DOMAIN jsIn.val : Distinguishable(k)
        /\ DOMAIN jsOut[1].enc = DOMAIN jsIn.val

\* a key of the body that survives decoding and encoding: it names a field,
\* its value is not null, and it is not id or project_id with the value 0
Kept(k) ==
    /\ k \in WireNames(PushRulesFields)
    /\ jsIn.val[k] # JNull
    /\ ~(k \in {"id", "project_id"} /\ jsIn.val[k] = JNum(0))

\* C7 amended: a field without a key (or with null) decodes to nil when it is
\* a pointer and to 0 when it is id or project_id; every kept key is
\* distinguishable from its absence, so a false, 0 or "" in a pointer field
\* is; and encoding the decoded value gives back exactly the kept keys with
\* their values.
C7_AbsentVersusFalsyAmended ==
    DecodedOK =>
        /\ \A f \in Range(PushRulesFields) :
              (f.key \notin DOMAIN jsIn.val \/ jsIn.val[f.key] = JNull)
                  => jsOut[1].val[1][f.go] = ZeroValue(f.type)
        /\ \A k \in DOMAIN jsIn.val : Kept(k) => Distinguishable(k)
        /\ DOMAIN jsOut[1].enc = {k \in DOMAIN jsIn.val : Kept(k)}
        /\ \A k \in DOMAIN jsOut[1].enc : jsOut[1].enc[k] = jsIn.val[k]

C7_Witness ==
    /\ DecodedOK
    /\ DOMAIN jsIn.val = {"deny_delete_tag", "id"}
    /\ jsIn.val["deny_delete_tag"] = JBool(FALSE)
    /\ jsIn.val["id"] = JNum(0)
    /\ jsOut[1].val[1].DenyDeleteTag = <<FALSE>>
    /\ jsOut[1].val[1].PreventSecrets = <<>>
    /\ DOMAIN jsOut[1].enc = {"deny_delete_tag"}

\* C8: two DeletePushRule calls in a row on the same project, the server
\* answering both with success, both return a nil error, whether or not the
\* project had a push rule before the first.
C8_DeleteTwice ==
    (/\ prev.op = "DeletePushRule" /\ last.op = "DeletePushRule"
     /\ prev.pid = last.pid
     /\ Succeeded(prev.status) /\ Succeeded(ServerStatus(last.out))) =>
        prev.errNil /\ last.out.err = Nil

C8_Witness ==
    /\ prev.op = "DeletePushRule" /\ last.op = "DeletePushRule"
    /\ prev.pid = last.pid
    /\ Succeeded(prev.status) /\ Succeeded(ServerStatus(last.out))
    /\ prev.ruleBefore /\ ~last.ruleBefore
    /\ prev.errNil /\ last.out.err = Nil

\* C9: an error of parseID, of NewRequest or of Do is what the operation
\* returns, at once: nothing more is called after it, Do is never called
\* again, and a 404 answer is never returned as success.
C9_ErrorsPassThrough ==
    Called =>
        /\ LastId.err # Nil => last.out.err = LastId.err /\ last.out.newReq = <<>>
        /\ (last.out.newReq # <<>> /\ last.out.newReq[1].err # Nil) =>
              last.out.err = last.out.newReq[1].err /\ last.out.do = <<>>
        /\ last.out.do # <<>> =>
              Len(last.out.do) = 1 /\ last.out.err = last.out.do[1].ret.err
        /\ ServerStatus(last.out) = 404 => last.out.err # Nil

C9_Witness ==
    /\ last.op = "DeletePushRule"
    /\ ServerStatus(last.out) = 404
    /\ last.out.err = ErrResponse
    /\ last.out.resp = <<[status |-> 404]>>

\* C10: GetPushRule, AddPushRule and EditPushRule return a resource exactly
\* when they return no error; the response is nil when parseID or NewRequest
\* failed, and otherwise the response Do returned, also when Do failed.
C10_ResultShape ==
    (Called /\ last.op # "DeletePushRule") =>
        /\ (last.out.rule # <<>>) <=> (last.out.err = Nil)
        /\ (LastId.err # Nil \/ ~Built) => last.out.resp = <<>>
        /\ (LastId.err = Nil /\ Built) =>
              last.out.do # <<>> /\ last.out.resp = last.out.do[1].ret.resp

C10_Witness ==
    /\ last.op = "AddPushRule"
    /\ last.out.err = ErrResponse
    /\ last.out.resp # <<>>
    /\ last.out.rule = <<>>
    /\ prev.op = "GetPushRule" /\ prev.errNil /\ Succeeded(prev.status)

====
